---- MODULE Spec2Model ----
(***************************************************************************)
(* Model of src/src/handlers.rs: the quote CRUD handlers of axum_crud.      *)
(*                                                                          *)
(* The store is the table `quotes`, a sequence of rows in heap order.  A    *)
(* handler is an async function: what it computes before its `.await`       *)
(* (Quote::new, Utc::now) happens when the request starts, its one SQL      *)
(* statement executes atomically at the store some time later, and the      *)
(* response is derived from the statement's result.  Several requests may   *)
(* be in flight between those two points.                                   *)
(*                                                                          *)
(* Environment assumptions, stated once:                                    *)
(*  - chrono::Utc::now() never goes backwards, but two readings may be      *)
(*    equal (the clock advances by Tick, independently of the handlers);    *)
(*  - uuid::Uuid::new_v4() returns a value that has not appeared anywhere   *)
(*    in the system before (the symbolic model of a 122-bit random value);  *)
(*  - a statement that ends in a storage error has no effect on the table.  *)
(***************************************************************************)
EXTENDS Integers, Sequences, FiniteSets, TLC

\* ---------------------------------------------------------------- bounds
MaxId == 3          \* uuids are 1..MaxId
MaxClock == 2       \* readings of Utc::now() are 1..MaxClock
MaxReq == 3         \* requests started in one behaviour

\* ------------------------------------------------------ program constants
FixtureId == 1      \* a0eebc99-9c0b-4ef8-bb6d-6bb9bd380a11, the fixture's row
OK == 200
CREATED == 201
NOT_FOUND == 404
INTERNAL_SERVER_ERROR == 500

Ids == 1..MaxId
Procs == {1, 2}
NoId == 0           \* the id of a request that carries none
NoText == "-"       \* the text of a request that carries none

VARIABLES
    rows,       \* the table quotes: a sequence of Quote records
    clock,      \* the current reading of chrono::Utc::now()
    req,        \* req[p]: the request in flight in slot p, suspended at .await
    last,       \* the latest response sent, with the request it answers
    used,       \* every uuid that has appeared: stored, generated or in a path
    log,        \* the successful creates and deletes, in commit order
    initIds,    \* ids of the rows present before the first request
    nreq,       \* requests started so far
    stmts       \* SQL statements executed so far

vars == <<rows, clock, req, last, used, log, initIds, nreq, stmts>>

\* ------------------------------------------------------------ data model

\* struct Quote
Quote(id, book, quote, inserted_at, updated_at) ==
    [id |-> id, book |-> book, quote |-> quote,
     inserted_at |-> inserted_at, updated_at |-> updated_at]

\* Quote::new: one reading of the clock for both timestamps
Quote_new(id, book, quote, now) == Quote(id, book, quote, now, now)

\* uuid::Uuid::new_v4(): a value not seen so far.  Uuids are only compared for
\* equality, so the unseen values are interchangeable and the least stands for
\* them all.
Unseen(seen) == Ids \ seen
NewV4Any(seen) == Ids
NewV4(seen) == {i \in Unseen(seen) : \A j \in Unseen(seen) : i <= j}

\* extract::Path(id): the uuids a request's path can carry, any seen value or
\* an unseen one (again the least stands for all the unseen)
PathIds(seen) == seen \cup {i \in Unseen(seen) : \A j \in Unseen(seen) : i <= j}

\* struct CreateQuote: the payloads the requests carry
CreateQuote == {[book |-> "Dune", quote |-> "fear"],
                [book |-> "Emma", quote |-> "spice"]}

\* ----------------------------------------------------- the SQL statements

\* the rows a WHERE id = $n clause selects
Matching(tbl, id) == {i \in DOMAIN tbl : tbl[i].id = id}

\* the unique key on quotes.id: an insert of a present id is rejected
UniqueViolation(tbl, id) == Matching(tbl, id) # {}

\* INSERT INTO quotes (id, book, quote, inserted_at, updated_at) VALUES (...)
InsertSwapped(tbl, q) == Append(tbl, [q EXCEPT !.book = q.quote, !.quote = q.book])
Insert(tbl, q) == Append(tbl, q)

\* SELECT * FROM quotes
SelectAllButFirst(tbl) == IF tbl = <<>> THEN tbl ELSE Tail(tbl)
SelectAll(tbl) == tbl

\* UPDATE quotes SET book = $1, quote = $2, updated_at = $3 WHERE id = $4
UpdateTouchInserted(tbl, id, book, quote, now) ==
    [i \in DOMAIN tbl |->
        IF tbl[i].id = id
        THEN [tbl[i] EXCEPT !.book = book, !.quote = quote, !.inserted_at = now]
        ELSE tbl[i]]
UpdateSwapped(tbl, id, book, quote, now) ==
    [i \in DOMAIN tbl |->
        IF tbl[i].id = id
        THEN [tbl[i] EXCEPT !.book = quote, !.quote = book, !.updated_at = now]
        ELSE tbl[i]]
UpdateKeepNewest(tbl, id, book, quote, now) ==
    [i \in DOMAIN tbl |->
        IF tbl[i].id = id /\ tbl[i].updated_at <= now
        THEN [tbl[i] EXCEPT !.book = book, !.quote = quote, !.updated_at = now]
        ELSE tbl[i]]
Update(tbl, id, book, quote, now) ==
    [i \in DOMAIN tbl |->
        IF tbl[i].id = id
        THEN [tbl[i] EXCEPT !.book = book, !.quote = quote, !.updated_at = now]
        ELSE tbl[i]]

\* DELETE FROM quotes WHERE id = $1
DeleteNothing(tbl, id) == tbl
Delete(tbl, id) == SelectSeq(tbl, LAMBDA r : r.id # id)

\* res.rows_affected() of an UPDATE or DELETE
RowsAffected(tbl, id) == Cardinality(Matching(tbl, id))

\* --------------------------------------------- results mapped to statuses

\* create_quote: match res { Ok(_) => CREATED, Err(_) => 500 }
CreateStatusAlwaysCreated(err) == CREATED
CreateStatus(err) == IF err THEN INTERNAL_SERVER_ERROR ELSE CREATED

\* read_quotes: match res { Ok(quotes) => 200 with the rows, Err(_) => 500 }
ReadStatus(err) == IF err THEN INTERNAL_SERVER_ERROR ELSE OK

\* update_quote: rows_affected 0 => NOT_FOUND, _ => OK; Err(_) => 500
UpdateStatusAlwaysOk(err, n) == IF err THEN INTERNAL_SERVER_ERROR ELSE OK
UpdateStatus(err, n) ==
    IF err THEN INTERNAL_SERVER_ERROR ELSE IF n = 0 THEN NOT_FOUND ELSE OK

\* delete_quote: rows_affected 0 => NOT_FOUND, _ => OK; Err(_) => 500
DeleteStatus(err, n) ==
    IF err THEN INTERNAL_SERVER_ERROR ELSE IF n = 0 THEN NOT_FOUND ELSE OK

\* ------------------------------------------------------ requests, replies

Idle == [kind |-> "idle", id |-> NoId, book |-> NoText, quote |-> NoText,
         now |-> 0, since |-> 0]

\* a request suspended at its .await; since: the length of the log when a delete starts
Request(kind, id, book, quote, now) ==
    [kind |-> kind, id |-> id, book |-> book, quote |-> quote, now |-> now,
     since |-> IF kind = "delete" THEN Len(log) ELSE 0]

\* the response to request r: its status and body; err: the statement's
\* result was Err(_)
Response(r, err, status, body) ==
    [kind |-> r.kind, id |-> r.id, since |-> r.since, err |-> err,
     status |-> status, body |-> body]

NoResponse ==
    [kind |-> "none", id |-> NoId, since |-> 0, err |-> FALSE, status |-> 0,
     body |-> <<>>]

\* an entry of the log
Event(op, id) == [op |-> op, id |-> id]

\* the fixture "quotes": one row, written before the service's clock starts
Fixture == <<Quote(FixtureId, "Dune", "fear", 0, 0)>>

IdsOf(tbl) == {tbl[i].id : i \in DOMAIN tbl}

Init ==
    /\ rows \in {<<>>, Fixture}
    /\ clock = 1
    /\ req = [p \in Procs |-> Idle]
    /\ last = NoResponse
    /\ used = IdsOf(rows)
    /\ log = <<>>
    /\ initIds = IdsOf(rows)
    /\ nreq = 0
    /\ stmts = 0

\* time passes
Tick ==
    /\ clock < MaxClock
    /\ clock' = clock + 1
    /\ UNCHANGED <<rows, req, last, used, log, initIds, nreq, stmts>>

\* a request starts in the first free slot (the slots are interchangeable),
\* while the bound allows
CanStart(p) ==
    /\ req[p].kind = "idle"
    /\ \A q \in Procs : q < p => req[q].kind # "idle"
    /\ nreq < MaxReq

\* create_quote up to its .await: Quote::new(payload.book, payload.quote)
StartCreate(p) ==
    /\ CanStart(p)
    /\ \E payload \in CreateQuote : \E id \in NewV4(used) :
        /\ req' = [req EXCEPT ![p] =
                Request("create", id, payload.book, payload.quote, clock)]
        /\ used' = used \cup {id}
    /\ nreq' = nreq + 1
    /\ UNCHANGED <<rows, clock, last, log, initIds, stmts>>

\* create_quote from the INSERT to the response
ExecCreate(p) ==
    /\ req[p].kind = "create"
    /\ LET r == req[p]
           quote == Quote_new(r.id, r.book, r.quote, r.now)
       IN \E fail \in BOOLEAN :
            LET err == fail \/ UniqueViolation(rows, quote.id)
                status == CreateStatus(err)
            IN /\ rows' = IF err THEN rows ELSE Insert(rows, quote)
               /\ last' = Response(r, err, status,
                                   IF status = CREATED THEN <<quote>> ELSE <<>>)
               /\ log' = IF status = CREATED
                         THEN Append(log, Event("create", quote.id)) ELSE log
    /\ req' = [req EXCEPT ![p] = Idle]
    /\ stmts' = stmts + 1
    /\ UNCHANGED <<clock, used, initIds, nreq>>

\* read_quotes: nothing precedes its statement
ReadQuotes(p) ==
    /\ CanStart(p)
    /\ \E err \in BOOLEAN :
        LET r == Request("read", NoId, NoText, NoText, 0)
            status == ReadStatus(err)
        IN last' = Response(r, err, status,
                            IF status = OK THEN SelectAll(rows) ELSE <<>>)
    /\ nreq' = nreq + 1
    /\ stmts' = stmts + 1
    /\ UNCHANGED <<rows, clock, req, used, log, initIds>>

\* update_quote up to its .await: let now = chrono::Utc::now()
StartUpdate(p) ==
    /\ CanStart(p)
    /\ \E id \in PathIds(used) : \E payload \in CreateQuote :
        /\ req' = [req EXCEPT ![p] =
                Request("update", id, payload.book, payload.quote, clock)]
        /\ used' = used \cup {id}
    /\ nreq' = nreq + 1
    /\ UNCHANGED <<rows, clock, last, log, initIds, stmts>>

\* update_quote from the UPDATE to the response
ExecUpdate(p) ==
    /\ req[p].kind = "update"
    /\ LET r == req[p]
       IN \E err \in BOOLEAN :
            /\ rows' = IF err THEN rows
                       ELSE Update(rows, r.id, r.book, r.quote, r.now)
            /\ last' = Response(r, err,
                                UpdateStatus(err, RowsAffected(rows, r.id)),
                                <<>>)
    /\ req' = [req EXCEPT ![p] = Idle]
    /\ stmts' = stmts + 1
    /\ UNCHANGED <<clock, used, log, initIds, nreq>>

\* delete_quote up to its .await: the path's id is bound
StartDelete(p) ==
    /\ CanStart(p)
    /\ \E id \in PathIds(used) :
        /\ req' = [req EXCEPT ![p] = Request("delete", id, NoText, NoText, 0)]
        /\ used' = used \cup {id}
    /\ nreq' = nreq + 1
    /\ UNCHANGED <<rows, clock, last, log, initIds, stmts>>

\* delete_quote from the DELETE to the response
ExecDelete(p) ==
    /\ req[p].kind = "delete"
    /\ LET r == req[p]
       IN \E err \in BOOLEAN :
            LET status == DeleteStatus(err, RowsAffected(rows, r.id))
            IN /\ rows' = IF err THEN rows ELSE Delete(rows, r.id)
               /\ last' = Response(r, err, status, <<>>)
               /\ log' = IF status = OK
                         THEN Append(log, Event("delete", r.id)) ELSE log
    /\ req' = [req EXCEPT ![p] = Idle]
    /\ stmts' = stmts + 1
    /\ UNCHANGED <<clock, used, initIds, nreq>>

Next ==
    \/ Tick
    \/ \E p \in Procs : StartCreate(p)
    \/ \E p \in Procs : ExecCreate(p)
    \/ \E p \in Procs : ReadQuotes(p)
    \/ \E p \in Procs : StartUpdate(p)
    \/ \E p \in Procs : ExecUpdate(p)
    \/ \E p \in Procs : StartDelete(p)
    \/ \E p \in Procs : ExecDelete(p)

Spec == Init /\ [][Next]_vars

\* ------------------------------------------------------ reading the model

Range(s) == {s[i] : i \in DOMAIN s}
Has(tbl, id) == Matching(tbl, id) # {}
RowsOf(tbl, id) == {tbl[i] : i \in Matching(tbl, id)}
Others(tbl, id) == SelectSeq(tbl, LAMBDA r : r.id # id)

\* this step is slot p's handler of that kind executing its statement
Executes(p, kind) == req[p].kind = kind /\ req'[p].kind = "idle"
\* this step is a read_quotes call
Reads == nreq' = nreq + 1 /\ req' = req
\* this step executes a statement
Statement == stmts' = stmts + 1

\* the latest event of the log about id, or "none"
LastOp(id) ==
    LET about == {k \in DOMAIN log : log[k].id = id}
    IN IF about = {} THEN "none"
       ELSE log[CHOOSE k \in about : \A j \in about : j <= k].op

\* the ids created (or initially present) and not removed since
Live == {id \in Ids : \/ LastOp(id) = "create"
                      \/ LastOp(id) = "none" /\ id \in initIds}
Creates == Cardinality({k \in DOMAIN log : log[k].op = "create"})
Deletes == Cardinality({k \in DOMAIN log : log[k].op = "delete"})

\* a delete of the same id committed with 200 while request r was in flight
Overtaken(r) ==
    \E k \in DOMAIN log : k > r.since /\ log[k] = Event("delete", r.id)

\* ------------------------------------------------------------------ C1

\* C1, as stated: update_quote and delete_quote on an id without a row
\* return 404 and leave the listing as it was.
C1_Stated ==
    [][\A p \in Procs :
        (Executes(p, "update") \/ Executes(p, "delete"))
            /\ ~Has(rows, req[p].id)
        => /\ last'.status = NOT_FOUND
           /\ SelectAll(rows') = SelectAll(rows)]_vars

\* C1, amended: on an id without a row they return 404 when the statement
\* executes and 500 when it fails with a storage error; in both cases the
\* listing before and after is identical.
C1_NotFound ==
    [][\A p \in Procs :
        (Executes(p, "update") \/ Executes(p, "delete"))
            /\ ~Has(rows, req[p].id)
        => /\ last'.status = IF last'.err THEN INTERNAL_SERVER_ERROR
                             ELSE NOT_FOUND
           /\ SelectAll(rows') = SelectAll(rows)]_vars

\* C1, reached: an update of an id without a row was answered 404 while other rows exist
C1_Witness ==
    /\ last.kind = "update"
    /\ last.status = NOT_FOUND
    /\ rows # <<>>
    /\ ~Has(rows, last.id)

\* ------------------------------------------------------------------ C2

\* what update_quote of request r must have done to the row of r.id
Updated(r) ==
    \A old \in RowsOf(rows, r.id) :
        /\ RowsOf(rows', r.id) # {}
        /\ \A new \in RowsOf(rows', r.id) :
            /\ new.book = r.book
            /\ new.quote = r.quote
            /\ new.id = old.id
            /\ new.inserted_at = old.inserted_at

\* C2, as stated: update_quote on an id with a row returns 200, the row then
\* carries the payload's book and quote, and keeps its id and inserted_at.
C2_Stated ==
    [][\A p \in Procs :
        Executes(p, "update") /\ Has(rows, req[p].id)
        => last'.status = OK /\ Updated(req[p])]_vars

\* C2, amended: the same whenever the UPDATE executes; when it fails with a
\* storage error the response is 500 and the row is as before.
C2_Update ==
    [][\A p \in Procs :
        Executes(p, "update") /\ Has(rows, req[p].id)
        => IF last'.err
           THEN last'.status = INTERNAL_SERVER_ERROR /\ rows' = rows
           ELSE last'.status = OK /\ Updated(req[p])]_vars

\* C2, reached: an update was answered 200 and the row carries the second payload and a later updated_at
C2_Witness ==
    /\ last.kind = "update"
    /\ last.status = OK
    /\ \E r \in RowsOf(rows, last.id) :
        r.book = "Emma" /\ r.quote = "spice" /\ r.inserted_at < r.updated_at

\* ------------------------------------------------------------------ C3

\* C3, as stated: every update_quote answered 200 leaves the row's
\* updated_at strictly greater than it was.
C3_Stated ==
    [][\A p \in Procs :
        Executes(p, "update") /\ last'.status = OK
        => \A old \in RowsOf(rows, req[p].id) :
            \A new \in RowsOf(rows', req[p].id) :
                new.updated_at > old.updated_at]_vars

\* ------------------------------------------------------------------ C4

\* C4: every stored row has inserted_at <= updated_at.
C4_Ordered == \A i \in DOMAIN rows : rows[i].inserted_at <= rows[i].updated_at

\* C4, reached: a row made by create_quote has since been updated at a later reading of the clock
C4_Witness ==
    \E i \in DOMAIN rows :
        /\ LastOp(rows[i].id) = "create"
        /\ rows[i].inserted_at < rows[i].updated_at

\* ------------------------------------------------------------------ C5

\* C5: a successful read_quotes returns exactly the records created (or
\* initially present) and not deleted since, as many as the initial rows plus
\* the successful creates minus the successful deletes; the record of a
\* create answered 201 is in the very next listing.
C5_Listing ==
    [][Reads /\ last'.status = OK
        => /\ IdsOf(last'.body) = Live
           /\ Len(last'.body) = Cardinality(initIds) + Creates - Deletes
           /\ (last.kind = "create" /\ last.status = CREATED
                => last.body[1] \in Range(last'.body))]_vars

\* C5, reached: a listing answered 200 with rows, after at least one create and one delete
C5_Witness ==
    /\ last.kind = "read"
    /\ last.status = OK
    /\ last.body # <<>>
    /\ Creates >= 1
    /\ Deletes >= 1

\* ------------------------------------------------------------------ C6

\* C6, as stated: delete_quote on an id with a row returns 200 and removes
\* the row from the listing; the next delete_quote on that id, with no create
\* of it in between, returns 404.
C6_Stated ==
    [][\A p \in Procs :
        Executes(p, "delete")
        => /\ Has(rows, req[p].id)
                => last'.status = OK /\ ~Has(SelectAll(rows'), req[p].id)
           /\ LastOp(req[p].id) = "delete" => last'.status = NOT_FOUND]_vars

\* C6, amended: the same for the deletes whose statement executes; one that
\* fails with a storage error returns 500 and removes nothing.
C6_DeleteTwice ==
    [][\A p \in Procs :
        Executes(p, "delete")
        => IF last'.err
           THEN last'.status = INTERNAL_SERVER_ERROR /\ rows' = rows
           ELSE /\ Has(rows, req[p].id)
                    => last'.status = OK /\ ~Has(SelectAll(rows'), req[p].id)
                /\ LastOp(req[p].id) = "delete"
                    => last'.status = NOT_FOUND]_vars

\* C6, reached: a delete of an id whose row an earlier delete removed was answered 404
C6_Witness ==
    /\ last.kind = "delete"
    /\ last.status = NOT_FOUND
    /\ LastOp(last.id) = "delete"

\* ------------------------------------------------------------------ C7

\* C7: a create_quote whose insert succeeds returns 201 with a record that
\* has the payload's book and quote, equal timestamps, and is field for field
\* the row added to the table.
C7_Created ==
    [][\A p \in Procs :
        Executes(p, "create") /\ ~last'.err
        => /\ last'.status = CREATED
           /\ Len(last'.body) = 1
           /\ last'.body[1].book = req[p].book
           /\ last'.body[1].quote = req[p].quote
           /\ last'.body[1].inserted_at = last'.body[1].updated_at
           /\ rows' = Append(rows, last'.body[1])]_vars

\* C7, reached: a create was answered 201 and its record is in the table next to another row
C7_Witness ==
    /\ last.kind = "create"
    /\ last.status = CREATED
    /\ last.body[1] \in Range(rows)
    /\ Len(rows) >= 2

\* ------------------------------------------------------------------ C8

\* C8: no two rows share an id, no two successful creates returned the same
\* id, no create returned the id of an initial row, and no create returned an
\* id that a delete had removed before.
C8_UniqueIds ==
    /\ \A i, j \in DOMAIN rows : rows[i].id = rows[j].id => i = j
    /\ \A i, j \in DOMAIN log :
        /\ log[i].op = "create" /\ log[j].op = "create" /\ i # j
            => log[i].id # log[j].id
        /\ log[i].op = "delete" /\ log[j].op = "create" /\ i < j
            => log[i].id # log[j].id
    /\ \A k \in DOMAIN log : log[k].op = "create" => log[k].id \notin initIds

\* C8, reached: a create committed after a delete, and two creates have committed
C8_Witness ==
    /\ \E i, j \in DOMAIN log :
        i < j /\ log[i].op = "delete" /\ log[j].op = "create"
    /\ Creates >= 2

\* ------------------------------------------------------------------ C9

\* C9: a statement that fails with a storage error is answered 500, the
\* table is as before, nothing is recorded as created or deleted, and the
\* handler is over: it has run that one statement and runs no other.
C9_StorageError ==
    [][Statement /\ last'.err
        => /\ last'.status = INTERNAL_SERVER_ERROR
           /\ last'.body = <<>>
           /\ rows' = rows
           /\ log' = log
           /\ \A p \in Procs : req'[p] # req[p] => req'[p] = Idle]_vars

\* C9, reached: a create_quote whose INSERT failed was answered 500 while the table has rows
C9_Witness ==
    /\ last.err
    /\ last.status = INTERNAL_SERVER_ERROR
    /\ last.kind = "create"
    /\ rows # <<>>

\* ------------------------------------------------------------------ C10

\* each statement's effect and answer, as if the statements ran one after
\* the other in commit order; the store changes in statement steps only
Serial ==
    /\ rows' # rows => Statement
    /\ Statement /\ last'.err => rows' = rows
    /\ Reads /\ ~last'.err => rows' = rows /\ last'.body = rows
    /\ \A p \in Procs :
        /\ Executes(p, "create") /\ ~last'.err
            => /\ Others(rows', req[p].id) = rows
               /\ RowsOf(rows', req[p].id) =
                    {Quote(req[p].id, req[p].book, req[p].quote,
                           req[p].now, req[p].now)}
        /\ Executes(p, "update") /\ ~last'.err
            => /\ Others(rows', req[p].id) = Others(rows, req[p].id)
               /\ last'.status = IF Has(rows, req[p].id) THEN OK ELSE NOT_FOUND
               /\ \A old \in RowsOf(rows, req[p].id) :
                    RowsOf(rows', req[p].id) =
                        {Quote(old.id, req[p].book, req[p].quote,
                               old.inserted_at, req[p].now)}
        /\ Executes(p, "delete") /\ ~last'.err
            => /\ rows' = Others(rows, req[p].id)
               /\ last'.status = IF Has(rows, req[p].id) THEN OK ELSE NOT_FOUND

\* C10, as stated: the handlers act as single atomic statements in commit
\* order, the last commit on an id wins, and of two concurrent deletes of an
\* id one returns 200 and the other 404.
C10_Stated ==
    [][/\ Serial
       /\ \A p \in Procs :
            Executes(p, "delete") /\ Overtaken(req[p])
            => last'.status = NOT_FOUND]_vars

\* C10, amended: the same, where the delete that commits second returns 404
\* when its statement executes and 500 when it fails with a storage error.
C10_Atomic ==
    [][/\ Serial
       /\ \A p \in Procs :
            Executes(p, "delete") /\ Overtaken(req[p])
            => last'.status = IF last'.err THEN INTERNAL_SERVER_ERROR
                              ELSE NOT_FOUND]_vars

\* C10, reached: a delete was answered 404 because a concurrent delete of its id committed first
C10_Witness ==
    /\ last.kind = "delete"
    /\ last.status = NOT_FOUND
    /\ Overtaken(last)

====
